---- MODULE Spec2Model ----
(***************************************************************************)
(* Model of pdf_tools_tabbed_word_improved.py: the password batch          *)
(* processor (process_single_pdf, run_batch), the merge utility            *)
(* (merge_files_list), the password table loader (load_password_csv), the  *)
(* password tab's run, cancel and polling callbacks, the Word tab (its     *)
(* list, its conversion batches and its result table) and the file lists   *)
(* and list boxes of the three tabs.                                       *)
(*                                                                         *)
(* The file system is a function from paths to file states.  A path is a   *)
(* pair <<folder, base name>>; os.path.join(folder, name) is <<folder,     *)
(* name>> and os.path.basename(p) is p[2].  A file is absent, unreadable   *)
(* ("corrupt": not a PDF, truncated or half written) or a PDF with a page  *)
(* sequence and a password (NoPw: not encrypted).                          *)
(*                                                                         *)
(* The PDF library is taken by its interface: PdfReader raises on a file   *)
(* that is not a PDF, reader.decrypt(pw) succeeds exactly for the file's   *)
(* password, add_page copies the page into the in-memory writer, and       *)
(* writer.write serialises the writer's pages under the password given to  *)
(* writer.encrypt.  A password that Python treats as false (None, "") is   *)
(* NoPw.                                                                   *)
(***************************************************************************)
EXTENDS Integers, Sequences, FiniteSets, TLC

\* ---------------------------------------------------------------- bounds
MaxFiles == 2          \* longest file list given to run_batch
MaxWorkers == 2        \* largest max_workers
MaxMerge == 3          \* longest file list given to merge_files_list
MaxPages == 2          \* most pages of one merge input
MaxBatches == 1        \* most Word conversion batches started in one run of the application
MaxEdits == 2          \* most changes of the Word tab's list and checkbox in one run
MaxRows == 3           \* most rows of a password CSV file
MaxRuns == 2           \* most batches started in the password tab in one run of the application
MaxPick == 2           \* most files chosen in one file dialog or dropped at once

\* ------------------------------------------------------------ the domain
NoPw == "nopw"
NoDir == "nodir"
NoPath == <<"nodir", "nofile">>

SrcDirs == {"d1", "d2"}
Names == {"a.pdf", "b.pdf"}
Dirs == SrcDirs \cup {"out", "bak"}
Paths == Dirs \X Names
InputPaths == {<<"d1", "a.pdf">>, <<"d2", "a.pdf">>, <<"d1", "b.pdf">>}

Absent == [kind |-> "absent", pages |-> <<>>, enc |-> NoPw]
Corrupt == [kind |-> "corrupt", pages |-> <<>>, enc |-> NoPw]
Pdf(pages, enc) == [kind |-> "pdf", pages |-> pages, enc |-> enc]

\* The pages of the file first found at path p: n pages tagged with p.
PagesOf(p, n) == [k \in 1..n |-> <<p[1], p[2], k>>]

basename(p) == p[Len(p)]
join(folder, name) == <<folder, name>>

VARIABLES
  fs,         \* the file system: [Paths -> file state]
  fs0,        \* the file system when the operation was called
  env,        \* the destination that cannot be written, and how the write fails
  opt,        \* the arguments of run_batch
  file_list,  \* run_batch's file_list
  tasks,      \* one entry per submitted future: the worker's position and data
  results,    \* run_batch's results list
  calls,      \* the arguments of each progress_callback call, in order
  pc,         \* run_batch's position
  log,        \* the run log: the log_path given and the rows the file holds
  wrote,      \* history: <<i, p>> when the worker of future i has changed path p
  mg,         \* merge_files_list: position, arguments, writer, return value
  word,       \* the Word tab: its lists, its result table and its batches
  gui,        \* the password tab: its widgets and its polling callback
  csvf        \* load_password_csv: the file read and the value returned

vars == <<fs, fs0, env, opt, file_list, tasks, results, calls, pc, log, wrote, mg, word, gui, csvf>>

\* ------------------------------------------------- the library, the disk
\* reader.decrypt(pw): 0 when the password is wrong, 1 when it opens the file.
decrypt(f, pw) == IF pw = f.enc THEN 1 ELSE 0

\* Mutant: any result that is not None counts as a success.
is_decrypt_success_NotNone(result) == result >= 0

is_decrypt_success(result) == result # 0

\* How a write to path p fails: "ok", "noopen" (open(p, "wb") raises and p is
\* left as it was) or "partial" (p is opened, hence truncated, and the write
\* raises before the file is complete).
WriteFault(p) == IF env.bad = p THEN env.how ELSE "ok"

\* safe_copy(src, dst) on file system f: the file system after it, and whether
\* it raised.  copy2 raises when src cannot be opened or dst cannot be written.
safe_copy(f, src, dst) ==
  IF f[src].kind = "absent" \/ WriteFault(dst) = "noopen"
    THEN [fs |-> f, raised |-> TRUE]
  ELSE IF WriteFault(dst) = "partial"
    THEN [fs |-> [f EXCEPT ![dst] = Corrupt], raised |-> TRUE]
  ELSE [fs |-> [f EXCEPT ![dst] = f[src]], raised |-> FALSE]

\* --------------------------------------------------- process_single_pdf
\* Mutant: the common password is tried first.
Candidates_CommonFirst(per_pw, common_password) ==
  <<[src |-> "common", pw |-> common_password], [src |-> "per-file", pw |-> per_pw]>>

\* The tuple (per_pw, common_password) the loop runs over; src names the
\* argument each password came from.
Candidates(per_pw, common_password) ==
  <<[src |-> "per-file", pw |-> per_pw], [src |-> "common", pw |-> common_password]>>

\* The loop: cands[k] is tried unless it is false; the first password that
\* decrypts ends the loop.  tried lists, in order, the sources of the
\* passwords that were given to reader.decrypt.
RECURSIVE TryPasswords(_, _, _, _, _, _)
TryPasswords(f, per_pw, cands, k, tried, msg) ==
  IF k > Len(cands)
    THEN [success |-> FALSE, msg |-> msg, tried |-> tried]
  ELSE LET pw == cands[k].pw IN
    IF pw = NoPw
      THEN TryPasswords(f, per_pw, cands, k + 1, tried, msg)
    ELSE IF is_decrypt_success(decrypt(f, pw))
      THEN LET used == IF pw = per_pw /\ per_pw # NoPw THEN "per-file" ELSE "common"
           IN [success |-> TRUE,
               msg |-> IF used = "per-file" THEN "Decrypted (used password: per-file)"
                       ELSE "Decrypted (used password: common)",
               tried |-> Append(tried, cands[k].src)]
    ELSE TryPasswords(f, per_pw, cands, k + 1, Append(tried, cands[k].src),
                      "Incorrect password")

\* Mutant: the table is never consulted.
PerPw_IgnoresTable(o, filename) == NoPw

PerPw(o, filename) ==
  IF filename \in DOMAIN o.per_file_map THEN o.per_file_map[filename] ELSE NoPw

\* Mutant: the test of new_password is inverted.
SkipsUnlocked_Inverted(o) == o.skip_unlocked /\ o.new_password # NoPw

\* An unencrypted file is reported and left alone.
SkipsUnlocked(o) == o.skip_unlocked /\ o.new_password = NoPw

\* Mutant: writer.encrypt is never called.
Written_Unencrypted(pages, new_password) == Pdf(pages, NoPw)

\* The document writer.write produces: the writer's pages, encrypted when
\* writer.encrypt(new_password) was called.
Written(pages, new_password) == Pdf(pages, new_password)

\* What process_single_pdf decides once it has opened and parsed the file f:
\* return at once (act = "return") or write the pages (act = "write") and
\* then return msg.
ReadPlan(f, filename, o) ==
  IF f.kind # "pdf"
    THEN [act |-> "return", ok |-> FALSE, msg |-> "Error", pages |-> <<>>, tried |-> <<>>]
  ELSE IF f.enc = NoPw
    THEN IF SkipsUnlocked(o)
           THEN [act |-> "return", ok |-> TRUE, msg |-> "Already unlocked (skipped)",
                 pages |-> <<>>, tried |-> <<>>]
         ELSE [act |-> "write", ok |-> TRUE,
               msg |-> IF o.new_password # NoPw
                         THEN "Unlocked -> Encrypted with new password"
                       ELSE "Already unlocked (rewritten)",
               pages |-> f.pages, tried |-> <<>>]
  ELSE LET per_pw == PerPw(o, filename)
           r == TryPasswords(f, per_pw, Candidates(per_pw, o.common_password), 1, <<>>,
                             "Failed to decrypt")
       IN IF r.success
            THEN [act |-> "write", ok |-> TRUE, msg |-> r.msg, pages |-> f.pages,
                  tried |-> r.tried]
          ELSE [act |-> "return", ok |-> FALSE, msg |-> r.msg, pages |-> <<>>,
                tried |-> r.tried]

out_path(o, file_path) ==
  IF o.output_folder # NoDir /\ ~o.overwrite
    THEN join(o.output_folder, basename(file_path))
  ELSE file_path

\* Mutant: the backup is taken when overwrite is off.
TakesBackup_Inverted(o) == ~o.overwrite /\ o.backup_root # NoDir

TakesBackup(o) == o.overwrite /\ o.backup_root # NoDir

backup_path(o, file_path) == join(o.backup_root, basename(file_path))

NoRes == <<"", FALSE, "">>

Queued(p) == [path |-> p, pc |-> "queued", pages |-> <<>>, msg |-> "", tried |-> <<>>,
              res |-> NoRes]

Returned(t, ok, msg) == [t EXCEPT !.pc = "done", !.res = <<basename(t.path), ok, msg>>]

Running == {i \in DOMAIN tasks : tasks[i].pc \in {"prepared", "backedup", "writing"}}

\* A pool thread takes the oldest queued future when fewer than max_workers
\* futures are running; the worker opens and parses the file, tries the
\* passwords and copies the pages into its writer.
OpenInput(i) ==
  /\ pc = "running"
  /\ tasks[i].pc = "queued"
  /\ \A j \in 1..(i - 1) : tasks[j].pc # "queued"
  /\ Cardinality(Running) < opt.max_workers
  /\ LET t == tasks[i]
         plan == ReadPlan(fs[t.path], basename(t.path), opt)
     IN tasks' = [tasks EXCEPT ![i] =
          IF plan.act = "return"
            THEN [Returned(t, plan.ok, plan.msg) EXCEPT !.tried = plan.tried]
          ELSE [t EXCEPT !.pc = "prepared", !.pages = plan.pages, !.msg = plan.msg,
                         !.tried = plan.tried]]
  /\ UNCHANGED <<fs, fs0, env, opt, file_list, results, calls, pc, log, wrote, mg, word, gui, csvf>>

\* safe_copy(file_path, backup_root/filename) when overwrite and backup_root.
Backup(i) ==
  /\ tasks[i].pc = "prepared"
  /\ TakesBackup(opt)
  /\ LET t == tasks[i]
         dst == backup_path(opt, t.path)
         c == safe_copy(fs, t.path, dst)
     IN /\ fs' = c.fs
        /\ wrote' = IF c.fs # fs THEN wrote \cup {<<i, dst>>} ELSE wrote
        /\ tasks' = [tasks EXCEPT ![i] =
             IF c.raised THEN Returned(t, FALSE, "Error") ELSE [t EXCEPT !.pc = "backedup"]]
  /\ UNCHANGED <<fs0, env, opt, file_list, results, calls, pc, log, mg, word, gui, csvf>>

\* open(out_path, "wb"): the file is created or truncated.
OpenOutput(i) ==
  /\ tasks[i].pc = IF TakesBackup(opt) THEN "backedup" ELSE "prepared"
  /\ LET t == tasks[i]
         dst == out_path(opt, t.path)
     IN IF WriteFault(dst) = "noopen"
          THEN /\ tasks' = [tasks EXCEPT ![i] = Returned(t, FALSE, "Error")]
               /\ UNCHANGED <<fs, wrote>>
        ELSE /\ fs' = [fs EXCEPT ![dst] = Corrupt]
             /\ wrote' = wrote \cup {<<i, dst>>}
             /\ tasks' = [tasks EXCEPT ![i].pc = "writing"]
  /\ UNCHANGED <<fs0, env, opt, file_list, results, calls, pc, log, mg, word, gui, csvf>>

\* writer.encrypt(new_password) when given, writer.write(out_f), close.  Two
\* workers that hold the same path open write through independent handles:
\* when another worker has the path open, or has written it since this one
\* opened it, the file ends as this worker's document or as a mix of both.
WriteOutput(i) ==
  /\ tasks[i].pc = "writing"
  /\ LET t == tasks[i]
         dst == out_path(opt, t.path)
         shared == \/ fs[dst] # Corrupt
                   \/ \E j \in DOMAIN tasks :
                        j # i /\ tasks[j].pc = "writing" /\ out_path(opt, tasks[j].path) = dst
     IN IF WriteFault(dst) = "partial"
          THEN /\ fs' = [fs EXCEPT ![dst] = Corrupt]
               /\ tasks' = [tasks EXCEPT ![i] = Returned(t, FALSE, "Error")]
        ELSE /\ \E mixed \in (IF shared THEN BOOLEAN ELSE {FALSE}) :
                  fs' = [fs EXCEPT ![dst] =
                           IF mixed THEN Corrupt ELSE Written(t.pages, opt.new_password)]
             /\ tasks' = [tasks EXCEPT ![i] = Returned(t, TRUE, t.msg)]
  /\ UNCHANGED <<fs0, env, opt, file_list, results, calls, pc, log, wrote, mg, word, gui, csvf>>

\* process_single_pdf as one call on file system f with nothing else running:
\* the record it returns and the file system it leaves.
process_single_pdf(f, file_path, o) ==
  LET filename == basename(file_path)
      plan == ReadPlan(f[file_path], filename, o)
      err == <<filename, FALSE, "Error">>
      c == IF TakesBackup(o) THEN safe_copy(f, file_path, backup_path(o, file_path))
           ELSE [fs |-> f, raised |-> FALSE]
      dst == out_path(o, file_path)
  IN IF plan.act = "return" THEN [res |-> <<filename, plan.ok, plan.msg>>, fs |-> f]
     ELSE IF c.raised THEN [res |-> err, fs |-> c.fs]
     ELSE IF WriteFault(dst) = "noopen" THEN [res |-> err, fs |-> c.fs]
     ELSE IF WriteFault(dst) = "partial"
       THEN [res |-> err, fs |-> [c.fs EXCEPT ![dst] = Corrupt]]
     ELSE [res |-> <<filename, TRUE, plan.msg>>,
           fs |-> [c.fs EXCEPT ![dst] = Written(plan.pages, o.new_password)]]

\* ------------------------------------------------------------ run_batch
\* The call: an empty list returns at once; otherwise the backup root is
\* created (run_batch raises when it cannot be) and every file is submitted.
Start ==
  /\ pc = "idle"
  /\ IF Len(file_list) = 0
       THEN pc' = "returned" /\ UNCHANGED tasks
     ELSE \E mkdir_ok \in (IF TakesBackup(opt) THEN BOOLEAN ELSE {TRUE}) :
            IF mkdir_ok
              THEN /\ pc' = "running"
                   /\ tasks' = [i \in 1..Len(file_list) |-> Queued(file_list[i])]
            ELSE pc' = "raised" /\ UNCHANGED tasks
  /\ UNCHANGED <<fs, fs0, env, opt, file_list, results, calls, log, wrote, mg, word, gui, csvf>>

\* The arguments of one progress_callback call; raised is history: whether
\* the callback raised.
CallbackArgs(i, raised) ==
  <<Len(results) + 1, Len(file_list), tasks[i].res[1], tasks[i].res[2], tasks[i].res[3],
    raised>>

\* Whether a call of the callback may raise.
Raises(o) == IF o.progress_callback = "raises" THEN BOOLEAN ELSE {FALSE}

\* Mutant: an exception of the callback leaves run_batch.
AfterCallback_Propagates(raised) == IF raised THEN "raised" ELSE "running"

\* run_batch's position after the callback: the loop goes on, whether the
\* callback returned or raised.
AfterCallback(raised) == "running"

\* Mutant: the record of a failed file is not appended.
Collect_DropsFailed(i) ==
  /\ pc = "running"
  /\ tasks[i].pc = "done"
  /\ results' = IF tasks[i].res[2] THEN Append(results, tasks[i].res) ELSE results
  /\ \E raised \in Raises(opt) :
       /\ calls' = IF opt.progress_callback = "none" THEN calls
                   ELSE Append(calls, CallbackArgs(i, raised))
       /\ pc' = AfterCallback(raised)
  /\ tasks' = [tasks EXCEPT ![i].pc = "collected"]
  /\ UNCHANGED <<fs, fs0, env, opt, file_list, log, wrote, mg, word, gui, csvf>>

\* One turn of the as_completed loop: a finished future is taken, in any
\* order, its record is appended to results and progress_callback, when
\* given, is called with (completed, total, fname, (ok, msg)); an exception
\* of the callback is swallowed.  fut.result() does not raise:
\* process_single_pdf returns a record for every exception raised after its
\* first line.
Collect(i) ==
  /\ pc = "running"
  /\ tasks[i].pc = "done"
  /\ results' = Append(results, tasks[i].res)
  /\ \E raised \in Raises(opt) :
       /\ calls' = IF opt.progress_callback = "none" THEN calls
                   ELSE Append(calls, CallbackArgs(i, raised))
       /\ pc' = AfterCallback(raised)
  /\ tasks' = [tasks EXCEPT ![i].pc = "collected"]
  /\ UNCHANGED <<fs, fs0, env, opt, file_list, log, wrote, mg, word, gui, csvf>>

NoLog == [path |-> "none", rows |-> <<>>]

\* Mutant: the rows are written last record first.
LogRows_Reversed(rs) ==
  << <<"timestamp", "filename", "success", "message">> >>
    \o [k \in 1..Len(rs) |->
          <<"now", rs[Len(rs) + 1 - k][1], IF rs[Len(rs) + 1 - k][2] THEN "OK" ELSE "FAIL",
            rs[Len(rs) + 1 - k][3]>>]

\* The rows csv.writer writes: the header, then one row per record of rs.
LogRows(rs) ==
  << <<"timestamp", "filename", "success", "message">> >>
    \o [k \in 1..Len(rs) |-> <<"now", rs[k][1], IF rs[k][2] THEN "OK" ELSE "FAIL", rs[k][3]>>]

\* After the loop: the log is written when log_path is given (a failure to
\* write it is only printed), and results is returned.
Return ==
  /\ pc = "running"
  /\ \A i \in DOMAIN tasks : tasks[i].pc = "collected"
  /\ pc' = "returned"
  /\ \E log_path \in {"none", "writable", "unwritable"} :
       log' = [path |-> log_path,
               rows |-> IF log_path = "writable" THEN LogRows(results) ELSE <<>>]
  /\ UNCHANGED <<fs, fs0, env, opt, file_list, tasks, results, calls, wrote, mg, word, gui, csvf>>

Worker(i) == OpenInput(i) \/ Backup(i) \/ OpenOutput(i) \/ WriteOutput(i)

NextBatch ==
  \/ Start
  \/ \E i \in DOMAIN tasks : Worker(i)
  \/ \E i \in DOMAIN tasks : Collect(i)
  \/ Return


\* ---------------------------------------------------- initial states
\* The per-file password tables: a name of Names maps to a password or is
\* not in the table.
PerFileMaps ==
  UNION {[D -> {"P", "W"}] : D \in SUBSET Names}

OptionSets == [
  common_password : {NoPw, "P", "W"},
  per_file_map : PerFileMaps,
  new_password : {NoPw, "Q"},
  output_folder : {NoDir, "out", "d1"},
  overwrite : BOOLEAN,
  backup_root : {NoDir, "bak"},
  skip_unlocked : BOOLEAN,
  max_workers : 1..MaxWorkers,
  progress_callback : {"none", "returns", "raises"}]

NoFault == [bad |-> NoPath, how |-> "ok"]

\* The destinations the call may write, one of which may be unwritable.
Targets(o, fl) ==
  {out_path(o, fl[k]) : k \in 1..Len(fl)}
    \cup (IF TakesBackup(o) THEN {backup_path(o, fl[k]) : k \in 1..Len(fl)} ELSE {})

Faults(o, fl) ==
  {NoFault} \cup [bad : Targets(o, fl), how : {"noopen", "partial"}]

\* File systems in which the files of the list are in any state and no other
\* file exists.
FileSystems(fl, kinds) ==
  LET listed == {fl[k] : k \in 1..Len(fl)}
      choices == [listed -> kinds]
      State(p, c) == IF c = "absent" THEN Absent
                     ELSE IF c = "corrupt" THEN Corrupt
                     ELSE IF c = "plain" THEN Pdf(PagesOf(p, 1), NoPw)
                     ELSE Pdf(PagesOf(p, 1), "P")
  IN {[p \in Paths |-> IF p \in listed THEN State(p, c[p]) ELSE Absent] : c \in choices}

FileLists(n) == UNION {[1..k -> InputPaths] : k \in 0..n}

\* The parts of the application a specification leaves untouched.
WordOff == [filepaths |-> <<>>, origin_map |-> <<>>, preserve |-> TRUE, tree |-> <<>>,
            buttons |-> FALSE, progress |-> 0, status |-> "Idle", jobs |-> <<>>,
            edits |-> 0, listbox |-> <<>>]
GuiOff == [running |-> FALSE, status |-> "Idle", progress |-> 0, run_btn |-> FALSE,
           cancel_btn |-> FALSE, polls |-> 0, read |-> 0, final_read |-> FALSE,
           dialogs |-> 0, errors |-> 0, cancelled |-> FALSE,
           at_cancel |-> [results |-> 0, progress |-> 0],
           runs |-> 0, stale |-> <<>>, extra |-> <<>>, foreign |-> FALSE,
           wrong_end |-> FALSE,
           pwd |-> [filepaths |-> <<>>, listbox |-> <<>>],
           merge |-> [filepaths |-> <<>>, listbox |-> <<>>], last_op |-> "none"]
CsvOff == [pc |-> "off", rows |-> <<>>, pd |-> FALSE, mapping |-> <<>>]

MgIdle == [pc |-> "off", files |-> <<>>, out |-> NoPath, writer |-> <<>>, i |-> 0,
           ret |-> "none"]

InitCall(lists, options, kinds) ==
  /\ file_list \in lists
  /\ opt \in options
  /\ env \in Faults(opt, file_list)
  /\ fs \in FileSystems(file_list, kinds)
  /\ fs0 = fs
  /\ tasks = <<>>
  /\ results = <<>>
  /\ calls = <<>>
  /\ pc = "idle"
  /\ log = NoLog
  /\ wrote = {}
  /\ mg = MgIdle
  /\ word = WordOff
  /\ gui = GuiOff
  /\ csvf = CsvOff

\* process_single_pdf on one file, under every combination of its arguments:
\* run_batch on a list of one file with one worker.
SingleOptions ==
  {o \in OptionSets : /\ o.max_workers = 1
                      /\ DOMAIN o.per_file_map # {"b.pdf"}
                      /\ o.progress_callback = "returns"}

InitSingle ==
  InitCall({<< <<"d1", "a.pdf">> >>}, SingleOptions, {"absent", "corrupt", "plain", "locked"})

SpecSingle == InitSingle /\ [][NextBatch]_vars

\* run_batch on lists of up to MaxFiles files, with one worker or MaxWorkers.
\* The table holds the password of a.pdf and the common password is wrong,
\* so that a locked a.pdf is decrypted and a locked b.pdf is not.  The output
\* folder is ignored when overwrite is set, and skip_unlocked when a new
\* password is given: one value stands for all.
BatchOptions ==
  {o \in OptionSets :
     /\ o.common_password = "W"
     /\ o.per_file_map = [n \in {"a.pdf"} |-> "P"]
     /\ o.max_workers \in {1, MaxWorkers}
     /\ (o.overwrite => o.output_folder = NoDir)
     /\ (o.backup_root # NoDir => o.overwrite)
     /\ (o.new_password # NoPw => o.skip_unlocked)
     /\ o.progress_callback = "returns"}

Init == InitCall(FileLists(MaxFiles), BatchOptions, {"corrupt", "plain", "locked"})

Spec == Init /\ [][NextBatch]_vars

\* run_batch as a library call with any callback: none, one that returns,
\* one that may raise at each call.  The files go to the output folder.
CallbackOptions ==
  {o \in OptionSets :
     /\ o.common_password = "W"
     /\ o.per_file_map = [n \in {"a.pdf"} |-> "P"]
     /\ o.new_password = NoPw
     /\ o.skip_unlocked
     /\ o.output_folder = "out"
     /\ ~o.overwrite
     /\ o.backup_root = NoDir
     /\ o.max_workers \in {1, MaxWorkers}}

InitCallback == InitCall(FileLists(MaxFiles), CallbackOptions, {"corrupt", "plain", "locked"})

SpecCallback == InitCallback /\ [][NextBatch]_vars

\* ------------------------------------------------------ merge_files_list
MergeInputs == {<<"d1", "a.pdf">>, <<"d1", "b.pdf">>}

\* reader.pages of an opened file: the PDF library raises on a file that is
\* not a PDF and on one that is encrypted and was not decrypted.
Readable(f) == f.kind = "pdf" /\ f.enc = NoPw

\* Mutant: the pages of an input are put in front of the writer's pages.
add_pages_Prepends(writer, pages) == pages \o writer

\* writer.add_page(p) for each page p of one input.
add_pages(writer, pages) == writer \o pages

\* Mutant: the output is opened for writing before the inputs are read.
MergeStart_OpensOutput ==
  /\ mg.pc = "called"
  /\ mg' = [mg EXCEPT !.pc = "reading", !.i = 1, !.writer = <<>>]
  /\ fs' = IF WriteFault(mg.out) = "noopen" THEN fs ELSE [fs EXCEPT ![mg.out] = Corrupt]
  /\ UNCHANGED <<fs0, env, opt, file_list, tasks, results, calls, pc, log, wrote, word, gui, csvf>>

\* The call: writer = PdfWriter().
MergeStart ==
  /\ mg.pc = "called"
  /\ mg' = [mg EXCEPT !.pc = "reading", !.i = 1, !.writer = <<>>]
  /\ UNCHANGED <<fs, fs0, env, opt, file_list, tasks, results, calls, pc, log, wrote, word, gui, csvf>>

\* One turn of the loop over file_list: the file is opened and each of its
\* pages is added to the writer; an exception ends the call with (False, ...).
MergeRead ==
  /\ mg.pc = "reading"
  /\ mg.i <= Len(mg.files)
  /\ LET f == fs[mg.files[mg.i]]
     IN mg' = IF Readable(f)
                THEN [mg EXCEPT !.writer = add_pages(mg.writer, f.pages), !.i = mg.i + 1]
              ELSE [mg EXCEPT !.pc = "done", !.ret = "fail"]
  /\ UNCHANGED <<fs, fs0, env, opt, file_list, tasks, results, calls, pc, log, wrote, word, gui, csvf>>

\* open(output_path, "wb") after the loop.
MergeOpenOutput ==
  /\ mg.pc = "reading"
  /\ mg.i > Len(mg.files)
  /\ IF WriteFault(mg.out) = "noopen"
       THEN mg' = [mg EXCEPT !.pc = "done", !.ret = "fail"] /\ UNCHANGED fs
     ELSE mg' = [mg EXCEPT !.pc = "writing"] /\ fs' = [fs EXCEPT ![mg.out] = Corrupt]
  /\ UNCHANGED <<fs0, env, opt, file_list, tasks, results, calls, pc, log, wrote, word, gui, csvf>>

\* writer.write(out_f) and the return.
MergeWrite ==
  /\ mg.pc = "writing"
  /\ IF WriteFault(mg.out) = "partial"
       THEN mg' = [mg EXCEPT !.pc = "done", !.ret = "fail"] /\ UNCHANGED fs
     ELSE /\ mg' = [mg EXCEPT !.pc = "done", !.ret = "ok"]
          /\ fs' = [fs EXCEPT ![mg.out] = Pdf(mg.writer, NoPw)]
  /\ UNCHANGED <<fs0, env, opt, file_list, tasks, results, calls, pc, log, wrote, word, gui, csvf>>

NextMerge == MergeStart \/ MergeRead \/ MergeOpenOutput \/ MergeWrite

\* The state of the file at p from a code: c pages when c > 0, no file when
\* c = 0, an unreadable file when c = -1, an encrypted one when c = -2.
MergeFileState(p, c) ==
  IF c = 0 THEN Absent
  ELSE IF c = -1 THEN Corrupt
  ELSE IF c = -2 THEN Pdf(PagesOf(p, 1), "P")
  ELSE Pdf(PagesOf(p, c), NoPw)

DefaultOptions == [common_password |-> NoPw, per_file_map |-> <<>>, new_password |-> NoPw,
                   output_folder |-> NoDir, overwrite |-> FALSE, backup_root |-> NoDir,
                   skip_unlocked |-> TRUE, max_workers |-> 1, progress_callback |-> "none"]

\* merge_files_list on lists of up to MaxMerge files of up to MaxPages pages;
\* the output path is a new file, an existing file or one of the inputs.
InitMerge ==
  /\ \E files \in UNION {[1..k -> MergeInputs] : k \in 0..MaxMerge},
        out \in {<<"out", "a.pdf">>, <<"d1", "a.pdf">>} :
       mg = [pc |-> "called", files |-> files, out |-> out, writer |-> <<>>, i |-> 0,
             ret |-> "none"]
  /\ \E c \in [MergeInputs -> (-2)..MaxPages], old \in {0, 1} :
       fs = [p \in Paths |->
               IF p \in MergeInputs THEN MergeFileState(p, c[p])
               ELSE IF p = <<"out", "a.pdf">> THEN MergeFileState(p, old)
               ELSE Absent]
  /\ env \in {NoFault} \cup [bad : {mg.out}, how : {"noopen", "partial"}]
  /\ fs0 = fs
  /\ opt = DefaultOptions
  /\ file_list = <<>>
  /\ tasks = <<>>
  /\ results = <<>>
  /\ calls = <<>>
  /\ pc = "off"
  /\ log = NoLog
  /\ wrote = {}
  /\ word = WordOff
  /\ gui = GuiOff
  /\ csvf = CsvOff

SpecMerge == InitMerge /\ [][NextMerge]_vars

\* ------------------------------------------------------------ the Word tab
\* A .docx path is the sequence of its components.  The disk holds F/a.docx
\* and F/sub/a.docx; the folders that can be chosen in "Add folder" are F and
\* F/sub.  os.walk lists a folder's own files before those of its subfolders.
DocxFiles == << <<"F", "a.docx">>, <<"F", "sub", "a.docx">> >>
DocxSet == {DocxFiles[k] : k \in 1..Len(DocxFiles)}
Folders == {<<"F">>, <<"F", "sub">>}
OutDir == <<"out">>

NoOrigin == <<>>       \* None as a value of word_origin_map
NoOutput == <<>>       \* "" as an output path

dirname(p) == SubSeq(p, 1, Len(p) - 1)
relpath(p, start) == SubSeq(p, Len(start) + 1, Len(p))
IsUnder(folder, p) == Len(p) > Len(folder) /\ SubSeq(p, 1, Len(folder)) = folder
\* os.path.splitext(os.path.basename(p))[0] + ".pdf"
pdf_name(p) == IF basename(p) = "a.docx" THEN "a.pdf" ELSE "other.pdf"

Range(s) == {s[k] : k \in 1..Len(s)}

RECURSIVE Filter(_, _)
\* The entries of sequence s that are in set keep, in order.
Filter(s, keep) ==
  IF s = <<>> THEN <<>>
  ELSE (IF Head(s) \in keep THEN <<Head(s)>> ELSE <<>>) \o Filter(Tail(s), keep)

RECURSIVE Ascending(_)
\* list(listbox.curselection()): the selected indices, smallest first.
Ascending(sel) ==
  IF sel = {} THEN <<>>
  ELSE LET i == CHOOSE i \in sel : \A j \in sel : i <= j
       IN <<i>> \o Ascending(sel \ {i})

RECURSIVE Descending(_)
\* reversed(sel)
Descending(sel) ==
  IF sel = {} THEN <<>>
  ELSE LET i == CHOOSE i \in sel : \A j \in sel : i >= j
       IN <<i>> \o Descending(sel \ {i})

\* listbox.delete(i) and list.pop(i)
delete_at(s, i) == SubSeq(s, 1, i - 1) \o SubSeq(s, i + 1, Len(s))

RECURSIVE delete_each(_, _)
\* for i in idxs: delete(i)
delete_each(s, idxs) ==
  IF idxs = <<>> THEN s ELSE delete_each(delete_at(s, Head(idxs)), Tail(idxs))

\* word_origin_map.get(fp, None)
origin_of(origin_map, fp) == IF fp \in DOMAIN origin_map THEN origin_map[fp] ELSE NoOrigin

\* The directory background_job passes to convert_docx_file_into_dir.
target_dir(out_dir, preserve, origin, fp) ==
  IF preserve /\ origin # NoOrigin
    THEN LET rel_dir == dirname(relpath(fp, origin))
         IN IF rel_dir # <<>> THEN out_dir \o rel_dir ELSE out_dir
  ELSE out_dir

\* convert_docx_file_into_dir(input_path, output_dir) when the converter
\* behaves as how: "ok" (the PDF exists afterwards), "nofile" or "error".
convert_docx_file_into_dir(input_path, output_dir, how) ==
  IF how = "ok" THEN <<TRUE, "Converted", output_dir \o <<pdf_name(input_path)>> >>
  ELSE IF how = "nofile" THEN <<FALSE, "docx2pdf produced no file", NoOutput>>
  ELSE <<FALSE, "Conversion error", NoOutput>>

\* A row of the result table.  by and shows are history: the batch item
\* <<batch, index>> that inserted the row and the one whose result it shows
\* (<<0, 0>>: none).
Row(file, status, msg, out, by, shows) ==
  [file |-> file, status |-> status, msg |-> msg, out |-> out, by |-> by, shows |-> shows]

\* The Word tab after construction (docx2pdf available).
WordInit == [WordOff EXCEPT !.buttons = TRUE]

WordFrame == UNCHANGED <<fs, fs0, env, opt, file_list, tasks, results, calls, pc, log,
                         wrote, mg, gui, csvf>>

\* word_add_files and _word_on_drop, one file chosen.
word_add_files(p) ==
  /\ word.edits < MaxEdits
  /\ word' = IF p \in Range(word.filepaths) THEN word
             ELSE [word EXCEPT !.edits = @ + 1,
                               !.filepaths = Append(@, p),
                               !.listbox = Append(@, basename(p)),
                               !.origin_map = [q \in DOMAIN @ \cup {p} |->
                                                 IF q = p THEN NoOrigin ELSE @[q]]]
  /\ WordFrame

\* word_add_folder: every .docx under the folder that is not yet listed.
word_add_folder(folder) ==
  /\ word.edits < MaxEdits
  /\ LET found == Filter(DocxFiles, {p \in DocxSet : IsUnder(folder, p)
                                                     /\ p \notin Range(word.filepaths)})
     IN word' = [word EXCEPT !.edits = @ + 1,
                             !.filepaths = @ \o found,
                             !.listbox = @ \o [k \in 1..Len(found) |-> basename(found[k])],
                             !.origin_map = [q \in DOMAIN @ \cup Range(found) |->
                                               IF q \in Range(found) THEN folder ELSE @[q]]]
  /\ WordFrame

\* word_remove_selected: the selected entries leave the list and the origin
\* map, and every row of the table that shows the base name of one of them
\* is deleted.
word_remove_selected(sel) ==
  /\ word.edits < MaxEdits
  /\ sel # {}
  /\ LET gone == {word.filepaths[i] : i \in sel}
         names == {basename(p) : p \in gone}
         keep == {k \in 1..Len(word.tree) : word.tree[k].file \notin names}
     IN word' = [word EXCEPT
          !.edits = @ + 1,
          !.filepaths = delete_each(@, Descending(sel)),
          !.listbox = delete_each(@, Descending(sel)),
          !.origin_map = [q \in DOMAIN @ \ gone |-> @[q]],
          !.tree = Filter(@, {word.tree[k] : k \in keep})]
  /\ WordFrame

word_clear_list ==
  /\ word.edits < MaxEdits
  /\ word' = [word EXCEPT !.edits = @ + 1, !.filepaths = <<>>, !.origin_map = <<>>,
                          !.tree = <<>>, !.listbox = <<>>]
  /\ WordFrame

\* The "Preserve subfolders" checkbox is clicked.
preserve_var_toggle ==
  /\ word.edits < MaxEdits
  /\ word' = [word EXCEPT !.edits = @ + 1, !.preserve = ~@]
  /\ WordFrame

\* completed / total * 100.0, as a whole number: 100 exactly when all is done.
pct(completed, total) == (completed * 100) \div total

\* _start_word_conversion(file_list): the options are read, one "Queued" row
\* per file is appended to the table, the buttons are disabled, and a
\* background thread and a polling callback are started on a new queue q.
\* origin0 is history: the origin map at this moment.
start_word_conversion(to_convert) ==
  /\ word.buttons
  /\ to_convert # <<>>
  /\ Len(word.jobs) < MaxBatches
  /\ LET b == Len(word.jobs) + 1
         job == [files |-> to_convert, out_dir |-> OutDir, preserve |-> word.preserve,
                 origin0 |-> word.origin_map, next |-> 1, inflight |-> {},
                 targets |-> <<>>, results |-> <<>>, q |-> <<>>, pc |-> "loop",
                 polling |-> TRUE, done_seen |-> FALSE]
     IN word' = [word EXCEPT
          !.tree = @ \o [k \in 1..Len(to_convert) |->
                           Row(basename(to_convert[k]), "Queued", "", NoOutput, <<b, k>>,
                               <<0, 0>>)],
          !.buttons = FALSE,
          !.status = "Converting...",
          !.progress = 0,
          !.jobs = Append(@, job)]
  /\ WordFrame

word_convert_selected(sel) ==
  start_word_conversion(Filter(word.filepaths, {word.filepaths[i] : i \in sel}))

word_convert_all == start_word_conversion(word.filepaths)

\* Mutant: the next conversion is started without waiting for the last one.
MayConvert_NoWait(job) == job.next <= Len(job.files)

\* The loop of background_job is at the head of its body: the last call of
\* the converter has returned and a file is left.
MayConvert(job) == job.inflight = {} /\ job.next <= Len(job.files)

\* background_job, first half of one turn of the loop: the origin of the file
\* is looked up in word_origin_map as it is now, the target directory is
\* computed and the converter is called.
ConvertCall(b) ==
  /\ word.jobs[b].pc = "loop"
  /\ MayConvert(word.jobs[b])
  /\ LET job == word.jobs[b]
         fp == job.files[job.next]
         dir == target_dir(job.out_dir, job.preserve, origin_of(word.origin_map, fp), fp)
     IN word' = [word EXCEPT !.jobs[b] =
          [job EXCEPT !.inflight = @ \cup {job.next}, !.next = @ + 1,
                      !.targets = Append(@, dir)]]
  /\ WordFrame

\* Second half: the converter returns, the progress message is queued and the
\* record is appended to results.
ConvertReturn(b) ==
  /\ word.jobs[b].pc = "loop"
  /\ \E k \in word.jobs[b].inflight, how \in {"ok", "nofile", "error"} :
       LET job == word.jobs[b]
           fp == job.files[k]
           r == convert_docx_file_into_dir(fp, job.targets[k], how)
           out == IF r[1] THEN r[3] ELSE NoOutput
           completed == Len(job.results) + 1
           item == [kind |-> "progress", pct |-> pct(completed, Len(job.files)), fp |-> fp,
                    ok |-> r[1], msg |-> r[2], outp |-> out, src |-> <<b, k>>]
       IN word' = [word EXCEPT !.jobs[b] =
            [job EXCEPT !.inflight = @ \ {k}, !.q = Append(@, item),
                        !.results = Append(@, <<fp, r[1], r[2], out>>)]]
  /\ WordFrame

\* After the loop: q.put(("done", results)).
JobDone(b) ==
  /\ word.jobs[b].pc = "loop"
  /\ word.jobs[b].next > Len(word.jobs[b].files)
  /\ word.jobs[b].inflight = {}
  /\ word' = [word EXCEPT !.jobs[b].pc = "finished",
                          !.jobs[b].q = Append(@, [kind |-> "done"])]
  /\ WordFrame

\* The row poll updates for a progress message about fp: the first row that
\* shows fp's base name and is waiting ("Queued", "In Progress", "") or has
\* no output path; 0 when there is none.
MatchingRow(tree, fp) ==
  LET hits == {k \in 1..Len(tree) :
                 /\ tree[k].file = basename(fp)
                 /\ (tree[k].status \in {"Queued", "In Progress", ""} \/ tree[k].out = NoOutput)}
  IN IF hits = {} THEN 0 ELSE CHOOSE k \in hits : \A h \in hits : k <= h

\* poll's handling of one item taken from the queue.
Handle(w, item) ==
  IF item.kind = "progress"
    THEN LET k == MatchingRow(w.tree, item.fp)
             status_text == IF item.ok THEN "OK" ELSE "FAIL"
         IN [w EXCEPT
               !.progress = item.pct,
               !.status = status_text,
               !.tree = IF k # 0
                          THEN [@ EXCEPT ![k] = Row(@.file, status_text, item.msg, item.outp,
                                                    @.by, item.src)]
                        ELSE Append(@, Row(basename(item.fp), status_text, item.msg,
                                           item.outp, <<0, 0>>, item.src))]
  ELSE [w EXCEPT !.progress = 100, !.status = "Done", !.buttons = TRUE]

RECURSIVE Drain(_, _)
\* The loop around q.get_nowait(): every queued item is handled, in order.
Drain(w, items) ==
  IF items = <<>> THEN w ELSE Drain(Handle(w, Head(items)), Tail(items))

\* One run of the polling callback of batch b: the queue is drained; the
\* callback schedules itself again while the progress variable is below 100,
\* and otherwise enables the buttons and shows "Idle".
poll(b) ==
  /\ word.jobs[b].polling
  /\ LET job == word.jobs[b]
         w == Drain(word, job.q)
         seen == job.done_seen \/ \E k \in 1..Len(job.q) : job.q[k].kind = "done"
         job2 == [job EXCEPT !.q = <<>>, !.done_seen = seen]
     IN word' = IF w.progress < 100
                  THEN [w EXCEPT !.jobs[b] = job2]
                ELSE [w EXCEPT !.jobs[b] = [job2 EXCEPT !.polling = FALSE],
                               !.buttons = TRUE, !.status = "Idle"]
  /\ WordFrame

NextWord ==
  \/ \E p \in DocxSet : word_add_files(p)
  \/ \E folder \in Folders : word_add_folder(folder)
  \/ \E sel \in SUBSET (1..Len(word.filepaths)) : word_remove_selected(sel)
  \/ word_clear_list
  \/ preserve_var_toggle
  \/ \E sel \in SUBSET (1..Len(word.filepaths)) : word_convert_selected(sel)
  \/ word_convert_all
  \/ \E b \in 1..Len(word.jobs) : ConvertCall(b) \/ ConvertReturn(b) \/ JobDone(b)
  \/ \E b \in 1..Len(word.jobs) : poll(b)

InitWord ==
  /\ word = WordInit
  /\ fs = [p \in Paths |-> Absent]
  /\ fs0 = fs
  /\ env = NoFault
  /\ opt = DefaultOptions
  /\ file_list = <<>>
  /\ tasks = <<>>
  /\ results = <<>>
  /\ calls = <<>>
  /\ pc = "off"
  /\ log = NoLog
  /\ wrote = {}
  /\ mg = MgIdle
  /\ gui = GuiOff
  /\ csvf = CsvOff

SpecWord == InitWord /\ [][NextWord]_vars

\* ------------------------------------------------------- the password tab
\* pwd_start_run starts run_batch on a background thread with a callback
\* that puts ("progress", ...) on self._pwd_queue; the thread then puts
\* ("done", results), or ("error", ...) when run_batch raised.  Of the
\* latest batch the queue holds what was put and not yet taken: the
\* callback's calls beyond the first gui.read, then the final item unless it
\* was taken.
OwnQueue ==
  [k \in 1..(Len(calls) - gui.read) |->
     [kind |-> "progress", perc |-> pct(calls[gui.read + k][1], calls[gui.read + k][2]),
      ok |-> calls[gui.read + k][4], src |-> gui.runs]]
    \o (IF gui.final_read THEN <<>>
        ELSE IF pc = "returned" THEN << [kind |-> "done", src |-> gui.runs] >>
        ELSE IF pc = "raised" THEN << [kind |-> "error", src |-> gui.runs] >>
        ELSE <<>>)

\* How many items the latest batch has put on the queue so far.
OwnPut == Len(calls) + (IF pc \in {"returned", "raised"} THEN 1 ELSE 0)

RECURSIVE Interleave(_, _, _)
\* own, whose head is the idx-th item the latest batch put, and extra in the
\* order of their put calls: an item of extra was put after the first at
\* items of the latest batch.
Interleave(own, idx, extra) ==
  IF extra = <<>> THEN own
  ELSE IF own # <<>> /\ idx <= Head(extra).at
    THEN <<Head(own)>> \o Interleave(Tail(own), idx + 1, extra)
  ELSE <<Head(extra)>> \o Interleave(own, idx, Tail(extra))

\* self._pwd_queue: the items of the latest batch, and among them those that
\* earlier batches, still running, have put since the queue was created
\* (gui.extra).  src is history: the number of the batch that put the item.
PwdQueue == Interleave(OwnQueue, gui.read + 1, gui.extra)

PwdFrame == UNCHANGED <<fs, fs0, env, opt, file_list, tasks, results, calls, log, wrote, mg,
                        word, csvf>>

\* pwd_start_run: nothing happens without files, or when the question about
\* missing passwords is answered with no; otherwise the widgets are set, the
\* background thread is started and the polling callback is scheduled.
pwd_start_run ==
  /\ gui.run_btn
  /\ pc = "off"
  /\ \E go \in (IF opt.common_password = NoPw /\ DOMAIN opt.per_file_map = {}
                  THEN BOOLEAN ELSE {TRUE}) :
       IF file_list = <<>> \/ ~go
         THEN UNCHANGED <<gui, pc>>
       ELSE /\ gui' = [gui EXCEPT !.run_btn = FALSE, !.cancel_btn = TRUE, !.running = TRUE,
                                  !.status = "Running...", !.progress = 0,
                                  !.polls = @ + 1, !.runs = @ + 1]
            /\ pc' = "idle"
  /\ PwdFrame

\* Mutant: cancelling also cancels the futures that have not started.
pwd_cancel_run_CancelsFutures ==
  /\ gui.cancel_btn
  /\ \E yes \in BOOLEAN :
       IF yes
         THEN /\ gui' = [gui EXCEPT !.running = FALSE, !.run_btn = TRUE, !.cancel_btn = FALSE,
                                    !.status = "Cancelled", !.cancelled = TRUE,
                                    !.at_cancel = [results |-> Len(results),
                                                   progress |-> gui.progress]]
              /\ tasks' = [i \in DOMAIN tasks |->
                             IF tasks[i].pc = "queued"
                               THEN Returned(tasks[i], FALSE, "Unhandled error")
                             ELSE tasks[i]]
       ELSE UNCHANGED <<gui, tasks>>
  /\ UNCHANGED <<fs, fs0, env, opt, file_list, results, calls, pc, log, wrote, mg, word, csvf>>

\* pwd_cancel_run: when the question is answered with yes, the running flag
\* is cleared, the buttons are reset and the label shows "Cancelled".
\* cancelled and at_cancel are history: that the run was cancelled, and how
\* many records run_batch had and what the progress bar showed at that time.
pwd_cancel_run ==
  /\ gui.cancel_btn
  /\ \E yes \in BOOLEAN :
       IF yes
         THEN /\ gui' = [gui EXCEPT !.running = FALSE, !.run_btn = TRUE, !.cancel_btn = FALSE,
                                    !.status = "Cancelled", !.cancelled = TRUE,
                                    !.at_cancel = [results |-> Len(results),
                                                   progress |-> gui.progress]]
              /\ UNCHANGED tasks
       ELSE UNCHANGED <<gui, tasks>>
  /\ UNCHANGED <<fs, fs0, env, opt, file_list, results, calls, pc, log, wrote, mg, word, csvf>>

\* _pwd_process_queue's handling of one item; dialogs and errors count the
\* "Completed" and the "Error" message boxes shown.  foreign and wrong_end
\* are history: an item of a batch other than the latest was handled, and
\* such an item cleared pwd_running while it was set.
PwdHandle(g, item) ==
  LET own == item.src = g.runs
      h == [g EXCEPT !.foreign = @ \/ ~own,
                     !.wrong_end = @ \/ (~own /\ g.running /\ item.kind # "progress")]
  IN IF item.kind = "progress"
       THEN [h EXCEPT !.progress = item.perc, !.status = IF item.ok THEN "OK" ELSE "FAIL",
                      !.read = IF own THEN @ + 1 ELSE @]
     ELSE IF item.kind = "done"
       THEN [h EXCEPT !.status = "Done", !.progress = 100, !.dialogs = @ + 1,
                      !.run_btn = TRUE, !.cancel_btn = FALSE, !.running = FALSE,
                      !.final_read = @ \/ own]
     ELSE [h EXCEPT !.errors = @ + 1, !.run_btn = TRUE, !.cancel_btn = FALSE,
                    !.running = FALSE, !.final_read = @ \/ own]

RECURSIVE PwdDrain(_, _)
PwdDrain(g, items) ==
  IF items = <<>> THEN g ELSE PwdDrain(PwdHandle(g, Head(items)), Tail(items))

\* One run of the scheduled callback _pwd_process_queue: every queued item is
\* handled; the callback schedules itself again while pwd_running is set and
\* otherwise resets the buttons.
pwd_process_queue ==
  /\ gui.polls > 0
  /\ LET g == [PwdDrain(gui, PwdQueue) EXCEPT !.extra = <<>>]
     IN gui' = IF g.running THEN g
               ELSE [g EXCEPT !.polls = @ - 1, !.run_btn = TRUE, !.cancel_btn = FALSE]
  /\ UNCHANGED pc
  /\ PwdFrame

\* pwd_start_run pressed again, after a cancellation or a completion.  The
\* widgets are set as before and self._pwd_queue becomes a new, empty queue.
\* tasks, results, calls and pc now describe the new batch.  A batch whose
\* background thread is still alive goes on in gui.stale, reduced to its
\* counts: its number, its files, those a worker has not finished
\* (unfinished) and those the as_completed loop has not taken (left).
pwd_start_run_again ==
  /\ gui.run_btn
  /\ pc # "off"
  /\ gui.runs < MaxRuns
  /\ \E go \in (IF opt.common_password = NoPw /\ DOMAIN opt.per_file_map = {}
                  THEN BOOLEAN ELSE {TRUE}) :
       IF file_list = <<>> \/ ~go
         THEN UNCHANGED <<gui, pc, tasks, results, calls>>
       ELSE LET old == [id |-> gui.runs, pc |-> pc, total |-> Len(file_list),
                        unfinished |-> IF pc = "idle" THEN Len(file_list)
                                       ELSE Cardinality({i \in DOMAIN tasks :
                                              tasks[i].pc \notin {"done", "collected"}}),
                        left |-> Len(file_list) - Len(results)]
            IN /\ gui' = [gui EXCEPT
                    !.run_btn = FALSE, !.cancel_btn = TRUE, !.running = TRUE,
                    !.status = "Running...", !.progress = 0, !.polls = @ + 1,
                    !.runs = @ + 1, !.read = 0, !.final_read = FALSE, !.extra = <<>>,
                    !.stale = IF pc \in {"idle", "running"} THEN Append(@, old) ELSE @]
               /\ pc' = "idle"
               /\ tasks' = <<>>
               /\ results' = <<>>
               /\ calls' = <<>>
  /\ UNCHANGED <<fs, fs0, env, opt, file_list, log, wrote, mg, word, csvf>>

\* self._pwd_queue.put(item) by the background thread of an earlier batch:
\* the attribute is read when put is called, so the item goes to the queue
\* of the latest batch.
StalePut(g, item) == [g EXCEPT !.extra = Append(@, item @@ [at |-> OwnPut])]

\* run_batch of earlier batch s begins: as Start.
StaleStart(s) ==
  /\ gui.stale[s].pc = "idle"
  /\ \E mkdir_ok \in (IF TakesBackup(opt) THEN BOOLEAN ELSE {TRUE}) :
       gui' = IF mkdir_ok THEN [gui EXCEPT !.stale[s].pc = "running"]
              ELSE StalePut([gui EXCEPT !.stale[s].pc = "raised"],
                            [kind |-> "error", src |-> gui.stale[s].id])
  /\ UNCHANGED pc
  /\ PwdFrame

\* A worker of earlier batch s finishes a file.
StaleWork(s) ==
  /\ gui.stale[s].pc = "running"
  /\ gui.stale[s].unfinished > 0
  /\ gui' = [gui EXCEPT !.stale[s].unfinished = @ - 1]
  /\ UNCHANGED pc
  /\ PwdFrame

\* One turn of the as_completed loop of earlier batch s: as Collect, the
\* callback puts a progress item.
StaleCollect(s) ==
  /\ gui.stale[s].pc = "running"
  /\ gui.stale[s].left > gui.stale[s].unfinished
  /\ \E ok \in BOOLEAN :
       LET b == gui.stale[s]
       IN gui' = StalePut([gui EXCEPT !.stale[s].left = @ - 1],
                          [kind |-> "progress", perc |-> pct(b.total - b.left + 1, b.total),
                           ok |-> ok, src |-> b.id])
  /\ UNCHANGED pc
  /\ PwdFrame

\* run_batch of earlier batch s returns: as Return, then background_job puts
\* ("done", results).
StaleReturn(s) ==
  /\ gui.stale[s].pc = "running"
  /\ gui.stale[s].left = 0
  /\ gui' = StalePut([gui EXCEPT !.stale[s].pc = "returned"],
                     [kind |-> "done", src |-> gui.stale[s].id])
  /\ UNCHANGED pc
  /\ PwdFrame

NextPwd ==
  \/ pwd_start_run
  \/ pwd_cancel_run
  \/ pwd_process_queue
  \/ NextBatch

\* The options pwd_start_run passes: backup_root is set exactly when
\* "Overwrite originals" is checked, and the callback never raises.  The
\* files go to the output folder or are overwritten in place, with
\* MaxWorkers workers.
PwdOptions ==
  {o \in OptionSets :
     /\ o.common_password = "W"
     /\ o.per_file_map = [n \in {"a.pdf"} |-> "P"]
     /\ o.new_password = NoPw
     /\ o.skip_unlocked
     /\ o.max_workers = MaxWorkers
     /\ o.output_folder = (IF o.overwrite THEN NoDir ELSE "out")
     /\ (o.backup_root # NoDir <=> o.overwrite)
     /\ o.progress_callback = "returns"}

\* The password tab with its list filled and its options set, "Run" not yet
\* pressed.
InitPwd ==
  /\ file_list \in FileLists(MaxFiles)
  /\ opt \in PwdOptions
  /\ env = NoFault
  /\ fs \in FileSystems(file_list, {"plain", "locked"})
  /\ fs0 = fs
  /\ tasks = <<>>
  /\ results = <<>>
  /\ calls = <<>>
  /\ pc = "off"
  /\ log = NoLog
  /\ wrote = {}
  /\ mg = MgIdle
  /\ word = WordOff
  /\ gui = [GuiOff EXCEPT !.run_btn = TRUE]
  /\ csvf = CsvOff

\* The pool's threads and the background thread keep running.
SpecPwd == InitPwd /\ [][NextPwd]_vars /\ WF_vars(NextBatch)

\* The password tab when "Run" may be pressed again.
NextPwdRerun ==
  \/ NextPwd
  \/ pwd_start_run_again
  \/ \E s \in 1..Len(gui.stale) :
       StaleStart(s) \/ StaleWork(s) \/ StaleCollect(s) \/ StaleReturn(s)

\* "Overwrite originals" is not checked (the files go to the output folder)
\* and every listed file is protected.
InitPwdRerun ==
  /\ InitPwd
  /\ ~opt.overwrite
  /\ \A k \in 1..Len(file_list) : fs[file_list[k]].enc # NoPw

SpecPwdRerun == InitPwdRerun /\ [][NextPwdRerun]_vars

\* ------------------------------------------- the file lists of the tabs
\* Each tab keeps a list of paths and a list box that shows their base
\* names.  The lists of the password tab and of the merge tab are gui.pwd
\* and gui.merge; those of the Word tab are word.filepaths and word.listbox.
\* gui.last_op is history: the last operation on gui.pwd or gui.merge.
PdfFolders == {"d1", "d2"}

\* What can be dropped on a list box: a PDF, a PDF whose name the drop event
\* wraps in braces, and a file that is not a PDF.
Dropped == {<<"d1", "a.pdf">>, <<"{", "d2", "a.pdf", "}">>, <<"d1", "n.txt">>}

\* f.strip('{}')
strip_braces(f) ==
  LET a == IF f # <<>> /\ Head(f) = "{" THEN Tail(f) ELSE f
  IN IF a # <<>> /\ a[Len(a)] = "}" THEN SubSeq(a, 1, Len(a) - 1) ELSE a

\* f.lower().endswith('.pdf')
is_pdf(f) == f # <<>> /\ basename(f) \in Names

\* The files os.walk(folder) yields, in one of the orders the file system
\* may list them in.
Walks(folder) ==
  LET found == {p \in InputPaths : p[1] = folder}
  IN {w \in [1..Cardinality(found) -> found] : \A p \in found : p \in Range(w)}

\* askopenfilenames: up to MaxPick files, each once.
Chosen ==
  {c \in UNION {[1..n -> InputPaths] : n \in 1..MaxPick} : Cardinality(Range(c)) = Len(c)}

RECURSIVE add_each(_, _)
\* for p in paths: if p not in filepaths: filepaths.append(p);
\* listbox.insert(END, basename(p))
add_each(t, paths) ==
  IF paths = <<>> THEN t
  ELSE add_each(IF Head(paths) \in Range(t.filepaths) THEN t
                ELSE [t EXCEPT !.filepaths = Append(@, Head(paths)),
                               !.listbox = Append(@, basename(Head(paths)))],
                Tail(paths))

RECURSIVE strip_and_keep(_)
\* The dropped names, braces stripped, that end in .pdf.
strip_and_keep(files) ==
  IF files = <<>> THEN <<>>
  ELSE (IF is_pdf(strip_braces(Head(files))) THEN <<strip_braces(Head(files))>> ELSE <<>>)
         \o strip_and_keep(Tail(files))

RECURSIVE remove_each(_, _)
\* for i in reversed(sel): listbox.delete(i); filepaths.pop(i)
remove_each(t, idxs) ==
  IF idxs = <<>> THEN t
  ELSE remove_each([t EXCEPT !.listbox = delete_at(@, Head(idxs)),
                             !.filepaths = delete_at(@, Head(idxs))],
                   Tail(idxs))

\* Mutant: the paths at lo and lo + 1 change places, the list box is left
\* as it is.
swap_PathsOnly(t, lo) ==
  [t EXCEPT !.filepaths = [@ EXCEPT ![lo] = t.filepaths[lo + 1],
                                    ![lo + 1] = t.filepaths[lo]]]

\* The body of the loops of merge_move_up and merge_move_down: the paths at
\* lo and lo + 1 change places, the two entries of the list box are deleted
\* and the base names of the two paths are inserted in their new order.
swap(t, lo) ==
  LET fps == [t.filepaths EXCEPT ![lo] = t.filepaths[lo + 1], ![lo + 1] = t.filepaths[lo]]
  IN [t EXCEPT !.filepaths = fps,
               !.listbox = SubSeq(@, 1, lo - 1)
                             \o <<basename(fps[lo]), basename(fps[lo + 1])>>
                             \o SubSeq(@, lo + 2, Len(@))]

RECURSIVE move_each_up(_, _)
\* for i in sel: if i is the first index: continue; swap with the entry above
move_each_up(t, idxs) ==
  IF idxs = <<>> THEN t
  ELSE move_each_up(IF Head(idxs) = 1 THEN t ELSE swap(t, Head(idxs) - 1), Tail(idxs))

RECURSIVE move_each_down(_, _)
\* for i in reversed(sel): if i is the last index: continue; swap with the
\* entry below
move_each_down(t, idxs) ==
  IF idxs = <<>> THEN t
  ELSE move_each_down(IF Head(idxs) = Len(t.listbox) THEN t ELSE swap(t, Head(idxs)),
                      Tail(idxs))

ListFrame == UNCHANGED <<fs, fs0, env, opt, file_list, tasks, results, calls, pc, log,
                         wrote, mg, word, csvf>>

pwd_add_files(paths) ==
  /\ gui' = [gui EXCEPT !.pwd = add_each(@, paths), !.last_op = "add_files"]
  /\ ListFrame

pwd_add_folder(folder) ==
  /\ \E found \in Walks(folder) :
       gui' = [gui EXCEPT !.pwd = add_each(@, found), !.last_op = "add_folder"]
  /\ ListFrame

pwd_remove_selected(sel) ==
  /\ gui' = [gui EXCEPT !.pwd = remove_each(@, Descending(sel)), !.last_op = "remove"]
  /\ ListFrame

pwd_clear_list ==
  /\ gui' = [gui EXCEPT !.pwd = [filepaths |-> <<>>, listbox |-> <<>>], !.last_op = "clear"]
  /\ ListFrame

pwd_on_drop(files) ==
  /\ gui' = [gui EXCEPT !.pwd = add_each(@, strip_and_keep(files)), !.last_op = "drop"]
  /\ ListFrame

merge_on_drop(files) ==
  /\ gui' = [gui EXCEPT !.merge = add_each(@, strip_and_keep(files)), !.last_op = "drop"]
  /\ ListFrame

merge_add_files(paths) ==
  /\ gui' = [gui EXCEPT !.merge = add_each(@, paths), !.last_op = "add_files"]
  /\ ListFrame

merge_add_folder(folder) ==
  /\ \E found \in Walks(folder) :
       gui' = [gui EXCEPT !.merge = add_each(@, found), !.last_op = "add_folder"]
  /\ ListFrame

merge_remove_selected(sel) ==
  /\ gui' = [gui EXCEPT !.merge = remove_each(@, Descending(sel)), !.last_op = "remove"]
  /\ ListFrame

merge_clear_list ==
  /\ gui' = [gui EXCEPT !.merge = [filepaths |-> <<>>, listbox |-> <<>>],
                        !.last_op = "clear"]
  /\ ListFrame

merge_move_up(sel) ==
  /\ gui' = [gui EXCEPT !.merge = move_each_up(@, Ascending(sel)), !.last_op = "move_up"]
  /\ ListFrame

merge_move_down(sel) ==
  /\ gui' = [gui EXCEPT !.merge = move_each_down(@, Descending(sel)),
                        !.last_op = "move_down"]
  /\ ListFrame

\* What can be dropped at once: up to MaxPick files.
Drops == UNION {[1..n -> Dropped] : n \in 1..MaxPick}

NextLists ==
  \/ \E paths \in Chosen : pwd_add_files(paths)
  \/ \E folder \in PdfFolders : pwd_add_folder(folder)
  \/ \E sel \in SUBSET (1..Len(gui.pwd.listbox)) : pwd_remove_selected(sel)
  \/ pwd_clear_list
  \/ \E files \in Drops : pwd_on_drop(files)
  \/ \E files \in Drops : merge_on_drop(files)
  \/ \E paths \in Chosen : merge_add_files(paths)
  \/ \E folder \in PdfFolders : merge_add_folder(folder)
  \/ \E sel \in SUBSET (1..Len(gui.merge.listbox)) : merge_remove_selected(sel)
  \/ merge_clear_list
  \/ \E sel \in SUBSET (1..Len(gui.merge.listbox)) : merge_move_up(sel)
  \/ \E sel \in SUBSET (1..Len(gui.merge.listbox)) : merge_move_down(sel)
  \/ \E p \in DocxSet : word_add_files(p)
  \/ \E folder \in Folders : word_add_folder(folder)
  \/ \E sel \in SUBSET (1..Len(word.listbox)) : word_remove_selected(sel)
  \/ word_clear_list

\* The application after construction, all lists empty.
InitLists ==
  /\ word = WordInit
  /\ gui = GuiOff
  /\ fs = [p \in Paths |-> Absent]
  /\ fs0 = fs
  /\ env = NoFault
  /\ opt = DefaultOptions
  /\ file_list = <<>>
  /\ tasks = <<>>
  /\ results = <<>>
  /\ calls = <<>>
  /\ pc = "off"
  /\ log = NoLog
  /\ wrote = {}
  /\ mg = MgIdle
  /\ csvf = CsvOff

SpecLists == InitLists /\ [][NextLists]_vars

\* ------------------------------------------------------ load_password_csv
\* A CSV file is the sequence of its rows, a row the sequence of its fields
\* (<<>>: a blank line).  Fields may carry blanks around the text.
CsvRows == {<<>>, <<"a.pdf">>, <<"a.pdf", "P">>, <<"a.pdf", "W">>, <<" a.pdf ", "P">>,
            <<"b.pdf", " P ">>, <<"filename", "password">>}

CsvFiles == UNION {[1..n -> CsvRows] : n \in 0..MaxRows}

\* str.strip() on the fields of CsvRows.
strip(x) == IF x = " a.pdf " THEN "a.pdf" ELSE IF x = " P " THEN "P" ELSE x

\* mapping[key] = value
Put(mapping, key, value) ==
  [n \in DOMAIN mapping \cup {key} |-> IF n = key THEN value ELSE mapping[n]]

RECURSIVE ReadWithCsv(_, _)
\* The csv.reader loop: a row that is empty or has one field is passed over.
ReadWithCsv(rows, mapping) ==
  IF rows = <<>> THEN mapping
  ELSE LET row == Head(rows)
       IN ReadWithCsv(Tail(rows),
            IF Len(row) >= 2 THEN Put(mapping, strip(row[1]), strip(row[2])) ELSE mapping)

RECURSIVE SkipBlank(_)
\* pd.read_csv skips blank lines.
SkipBlank(rows) ==
  IF rows = <<>> THEN <<>>
  ELSE (IF Head(rows) = <<>> THEN <<>> ELSE <<Head(rows)>>) \o SkipBlank(Tail(rows))

RECURSIVE ReadFrame(_, _)
\* The loop over df.iterrows() of a frame of two columns: a field missing in
\* a row is NaN, and str(NaN) is "nan"; only the name is stripped.
ReadFrame(rows, mapping) ==
  IF rows = <<>> THEN mapping
  ELSE LET row == Head(rows)
       IN ReadFrame(Tail(rows),
            Put(mapping, strip(row[1]), IF Len(row) >= 2 THEN row[2] ELSE "nan"))

\* The pandas branch: the first line that is not blank is the header.  An
\* empty file makes read_csv raise; a header of one field gives a frame of one
\* column, on which row.iloc[1] raises for the first row.
ReadWithPandas(rows) ==
  LET lines == SkipBlank(rows)
  IN IF lines = <<>> THEN [raised |-> TRUE, mapping |-> <<>>]
     ELSE IF Len(Head(lines)) = 1
       THEN [raised |-> Len(lines) > 1, mapping |-> <<>>]
     ELSE [raised |-> FALSE, mapping |-> ReadFrame(Tail(lines), <<>>)]

\* load_password_csv(csv_path) for a file of the given rows, with pandas
\* installed (pd) or not.
load_password_csv ==
  /\ csvf.pc = "called"
  /\ LET r == IF csvf.pd THEN ReadWithPandas(csvf.rows)
              ELSE [raised |-> FALSE, mapping |-> ReadWithCsv(csvf.rows, <<>>)]
     IN csvf' = [csvf EXCEPT !.pc = IF r.raised THEN "raised" ELSE "returned",
                             !.mapping = r.mapping]
  /\ UNCHANGED <<fs, fs0, env, opt, file_list, tasks, results, calls, pc, log, wrote, mg,
                 word, gui>>

NextCsv == load_password_csv

InitCsv ==
  /\ csvf \in [pc : {"called"}, rows : CsvFiles, pd : BOOLEAN, mapping : {<<>>}]
  /\ fs = [p \in Paths |-> Absent]
  /\ fs0 = fs
  /\ env = NoFault
  /\ opt = DefaultOptions
  /\ file_list = <<>>
  /\ tasks = <<>>
  /\ results = <<>>
  /\ calls = <<>>
  /\ pc = "off"
  /\ log = NoLog
  /\ wrote = {}
  /\ mg = MgIdle
  /\ word = WordOff
  /\ gui = GuiOff

SpecCsv == InitCsv /\ [][NextCsv]_vars

\* ================================================================ claims
Failed(i) == tasks[i].pc \in {"done", "collected"} /\ ~tasks[i].res[2]

\* The only file of SpecSingle and its record.
TheFile == file_list[1]
TheRecord == results[1]
SingleReturned == pc = "returned" /\ Len(results) = 1
\* The password the table gives for the only file's name, NoPw when it has none.
TablePw ==
  IF TheFile[2] \in DOMAIN opt.per_file_map THEN opt.per_file_map[TheFile[2]] ELSE NoPw
Locked(f) == f.kind = "pdf" /\ f.enc # NoPw
Plain(f) == f.kind = "pdf" /\ f.enc = NoPw

\* C1: when run_batch returns, results has exactly one record per submitted
\* file: as many records as the list has entries, and for every file name as
\* many records as entries of the list with that name (same path listed twice
\* included), whatever the files' states and the worker count.
C1_OneRecordPerInput ==
  pc = "returned" =>
    /\ Len(results) = Len(file_list)
    /\ \A n \in Names :
         Cardinality({k \in 1..Len(results) : results[k][1] = n})
           = Cardinality({k \in 1..Len(file_list) : basename(file_list[k]) = n})

C1_Witness ==
  /\ pc = "returned"
  /\ Len(file_list) >= 2
  /\ file_list[1] = file_list[2]
  /\ \E k \in 1..Len(results) : ~results[k][2]
  /\ \E k \in 1..Len(results) : results[k][2]

\* C2: when run_batch returns and a file of the list has failed, the failing
\* file has a record with success flag false and every other file of the list
\* has the record process_single_pdf returns for it when it is run alone on
\* the files as they were when run_batch was called.
C2_SiblingsUnaffected ==
  pc = "returned" =>
    \A i \in DOMAIN tasks :
      Failed(i) =>
        /\ \E k \in 1..Len(results) : results[k] = tasks[i].res /\ ~results[k][2]
        /\ \A j \in DOMAIN tasks \ {i} :
             /\ tasks[j].pc = "collected"
             /\ tasks[j].res = process_single_pdf(fs0, tasks[j].path, opt).res

\* C3: a file encrypted with password P, with P given as the per-file
\* password of its name or as the common password, whatever the other of the
\* two is: process_single_pdf returns a success record (the backup copy and
\* the output being writable).
C3_RightPasswordSucceeds ==
  (/\ SingleReturned
   /\ Locked(fs0[TheFile])
   /\ \/ TablePw = fs0[TheFile].enc
      \/ opt.common_password = fs0[TheFile].enc
   /\ env = NoFault)
  => TheRecord[2]

\* The per-file password is wrong and the common password decrypts.
C3_Witness ==
  /\ SingleReturned
  /\ Locked(fs0[TheFile])
  /\ TablePw = "W"
  /\ opt.common_password = fs0[TheFile].enc
  /\ TheRecord[2]

NonePasswordOpens ==
  /\ Locked(fs0[TheFile])
  /\ TablePw # fs0[TheFile].enc
  /\ opt.common_password # fs0[TheFile].enc

\* C4 as stated: an encrypted file that no password opens (per-file and
\* common both wrong or absent) gets a failure record with the message
\* "Incorrect password".
C4_AlwaysIncorrectPassword ==
  (SingleReturned /\ NonePasswordOpens)
  => (~TheRecord[2] /\ TheRecord[3] = "Incorrect password")

\* C4 amended: an encrypted file that no password opens gets a failure
\* record; its message is "Incorrect password" when a per-file or a common
\* password was given, and "Failed to decrypt" when neither was given.
C4_FailureMessage ==
  (SingleReturned /\ NonePasswordOpens)
  => /\ ~TheRecord[2]
     /\ TheRecord[3] =
          IF TablePw = NoPw /\ opt.common_password = NoPw
            THEN "Failed to decrypt"
          ELSE "Incorrect password"

\* A wrong per-file password and a wrong common password.
C4_Witness ==
  /\ SingleReturned
  /\ NonePasswordOpens
  /\ TablePw = "W"
  /\ opt.common_password = "W"
  /\ TheRecord[3] = "Incorrect password"

\* C5: for an encrypted file, the per-file password is tried exactly when the
\* name is in the table, and before the common password; the common password
\* is tried exactly when it is given and the per-file password was absent or
\* did not decrypt; and a success message names the source of the password
\* that was tried last, the one that decrypted.
C5_PerFileFirst ==
  \A i \in DOMAIN tasks :
    (tasks[i].pc # "queued" /\ Locked(fs0[TheFile])) =>
      LET per_pw == TablePw
          per_opens == per_pw = fs0[TheFile].enc
          want == (IF per_pw # NoPw THEN <<"per-file">> ELSE <<>>)
                    \o (IF opt.common_password # NoPw /\ ~per_opens
                          THEN <<"common">> ELSE <<>>)
          t == tasks[i]
      IN /\ t.tried = want
         /\ (t.pc \in {"done", "collected"} /\ t.res[2]) =>
              /\ t.tried # <<>>
              /\ t.res[3] = IF t.tried[Len(t.tried)] = "per-file"
                              THEN "Decrypted (used password: per-file)"
                            ELSE "Decrypted (used password: common)"

\* Both passwords are given and both decrypt: only the per-file one is tried.
C5_Witness ==
  /\ SingleReturned
  /\ Locked(fs0[TheFile])
  /\ TablePw = fs0[TheFile].enc
  /\ opt.common_password = fs0[TheFile].enc
  /\ tasks[1].tried = <<"per-file">>
  /\ TheRecord = <<"a.pdf", TRUE, "Decrypted (used password: per-file)">>

\* C6 as stated: an unencrypted input with no new password gets a success
\* record and no file is created or changed, for every setting of
\* skip_unlocked, overwrite, output folder and backup folder.
C6_UnlockedNeverRewritten ==
  (Plain(fs0[TheFile]) /\ opt.new_password = NoPw)
  => /\ fs = fs0
     /\ SingleReturned => TheRecord[2]

\* C6 amended: an unencrypted input with no new password and skip_unlocked
\* enabled gets a success record and no file is created or changed, for every
\* setting of overwrite, output folder and backup folder.
C6_UnlockedSkipped ==
  (Plain(fs0[TheFile]) /\ opt.new_password = NoPw /\ opt.skip_unlocked)
  => /\ fs = fs0
     /\ wrote = {}
     /\ SingleReturned => TheRecord = <<basename(TheFile), TRUE, "Already unlocked (skipped)">>

C6_Witness ==
  /\ SingleReturned
  /\ Plain(fs0[TheFile])
  /\ opt.new_password = NoPw
  /\ opt.skip_unlocked
  /\ opt.overwrite
  /\ opt.backup_root # NoDir
  /\ TheRecord[2]

\* The output path of the only file, from the arguments.
TheOutput ==
  IF opt.output_folder # NoDir /\ ~opt.overwrite
    THEN <<opt.output_folder, TheFile[2]>>
  ELSE TheFile

\* C7: when process_single_pdf returns success and a new password Q was
\* given, the file at the output path holds the input's pages and is
\* encrypted with Q: reader.decrypt(Q) succeeds on it and it is not an
\* unencrypted file; in place and into an output folder.
C7_OutputProtected ==
  (SingleReturned /\ TheRecord[2] /\ opt.new_password # NoPw)
  => /\ fs[TheOutput].kind = "pdf"
     /\ fs[TheOutput].pages = fs0[TheFile].pages
     /\ fs[TheOutput].enc # NoPw
     /\ decrypt(fs[TheOutput], opt.new_password) # 0

\* A decrypted input rewritten in place under the new password.
C7_Witness ==
  /\ SingleReturned
  /\ TheRecord[2]
  /\ opt.new_password = "Q"
  /\ Locked(fs0[TheFile])
  /\ TheOutput = TheFile
  /\ fs[TheFile].enc = "Q"

\* C8: with overwrite and a backup folder, the worker has opened the
\* original's path for writing only when the backup path holds the original
\* as it was; so a backup copy that failed leaves the original unwritten.
C8_BackupBeforeWrite ==
  (opt.overwrite /\ opt.backup_root # NoDir) =>
    \A i \in DOMAIN tasks :
      (<<i, tasks[i].path>> \in wrote) =>
        fs[<<opt.backup_root, tasks[i].path[2]>>] = fs0[tasks[i].path]

\* The original is open for writing, truncated, and its backup is in place.
C8_Witness ==
  /\ opt.overwrite
  /\ opt.backup_root # NoDir
  /\ tasks # <<>>
  /\ tasks[1].pc = "writing"
  /\ fs[TheFile] = Corrupt
  /\ fs0[TheFile].kind = "pdf"
  /\ fs[<<opt.backup_root, TheFile[2]>>] = fs0[TheFile]

\* The pages of the files of list fl on file system f, in list order.
RECURSIVE Concat(_, _)
Concat(f, fl) ==
  IF fl = <<>> THEN <<>> ELSE f[Head(fl)].pages \o Concat(f, Tail(fl))

AllReadable == \A k \in 1..Len(mg.files) : Readable(fs0[mg.files[k]])

\* C9: merge_files_list on a non-empty list of readable inputs, the output
\* being writable, returns success; and whenever it returns success the
\* output file is an unencrypted PDF whose pages are the inputs' pages in
\* list order, each input's pages in their order.
C9_MergeConcatenates ==
  (mg.pc = "done" /\ mg.files # <<>>) =>
    /\ (AllReadable /\ env = NoFault) => mg.ret = "ok"
    /\ mg.ret = "ok" => fs[mg.out] = Pdf(Concat(fs0, mg.files), NoPw)

\* Three inputs, the same file twice among them, two pages in one of them.
C9_Witness ==
  /\ mg.pc = "done"
  /\ mg.ret = "ok"
  /\ Len(mg.files) = 3
  /\ mg.files[1] = mg.files[3]
  /\ mg.files[1] # mg.files[2]
  /\ Len(fs0[mg.files[1]].pages) = 2
  /\ Len(fs[mg.out].pages) = 5

\* C10: when an input of merge_files_list cannot be read, the call returns
\* failure and the output path is left as it was; the output path is changed
\* only after every input has been read into the writer.
C10_ReadFailureLeavesOutput ==
  /\ fs[mg.out] # fs0[mg.out] => (mg.i > Len(mg.files) /\ AllReadable)
  /\ (mg.pc = "done" /\ ~AllReadable) => (mg.ret = "fail" /\ fs = fs0)

\* The second input is unreadable and the output file existed before.
C10_Witness ==
  /\ mg.pc = "done"
  /\ mg.ret = "fail"
  /\ mg.i = 2
  /\ mg.writer # <<>>
  /\ fs0[mg.out].kind = "pdf"
  /\ fs[mg.out] = fs0[mg.out]

\* ---------------------------------------------------------------- Word tab
\* The folder a file of batch b was added from, as word_origin_map held it
\* when the batch was started (NoOrigin: added individually).
OriginAtStart(b, k) ==
  LET job == word.jobs[b]
  IN IF job.files[k] \in DOMAIN job.origin0 THEN job.origin0[job.files[k]] ELSE NoOrigin

\* C11: every file of a Word batch is converted into the output folder
\* extended by the file's directory relative to the folder it was added from
\* when "preserve subfolders" is enabled, and into the output folder itself
\* when it is disabled or the file was added individually.
C11_TargetDirectory ==
  \A b \in 1..Len(word.jobs) : \A k \in 1..Len(word.jobs[b].targets) :
    LET job == word.jobs[b]
        fp == job.files[k]
        origin == OriginAtStart(b, k)
    IN job.targets[k] =
         IF origin # NoOrigin /\ job.preserve
           THEN OutDir \o SubSeq(fp, Len(origin) + 1, Len(fp) - 1)
         ELSE OutDir

\* The conversions in flight: the converter was called and has not returned.
InFlight ==
  {bk \in (1..Len(word.jobs)) \X (1..Len(DocxFiles)) : bk[2] \in word.jobs[bk[1]].inflight}

\* C17: the files of a Word batch are converted one after the other in list
\* order: at most one call of the converter is in flight, over all batches;
\* the k-th call is made when k - 1 records exist; the k-th record is that of
\* the k-th file of the list; a finished batch has one record per file; and
\* a record has an output path exactly when it is a success.
C17_SequentialInListOrder ==
  /\ Cardinality(InFlight) <= 1
  /\ \A b \in 1..Len(word.jobs) :
       LET job == word.jobs[b]
       IN /\ \A k \in job.inflight : Len(job.results) = k - 1
          /\ Len(job.targets) \in {Len(job.results), Len(job.results) + 1}
          /\ Len(job.results) <= Len(job.files)
          /\ \A k \in 1..Len(job.results) :
               /\ job.results[k][1] = job.files[k]
               /\ (job.results[k][4] # NoOutput <=> job.results[k][2])
          /\ (job.pc = "finished" => Len(job.results) = Len(job.files))

\* A finished batch of two files, the first converted and the second not.
C17_Witness ==
  \E b \in 1..Len(word.jobs) :
    /\ word.jobs[b].pc = "finished"
    /\ Len(word.jobs[b].results) = 2
    /\ word.jobs[b].results[1][2]
    /\ ~word.jobs[b].results[2][2]

\* Batch b is over and poll has handled each of its progress messages.
Polled(b) ==
  /\ word.jobs[b].pc = "finished"
  /\ \A n \in 1..Len(word.jobs[b].q) : word.jobs[b].q[n].kind # "progress"

\* C18: in the result table, a row that a batch inserted as "Queued" for its
\* k-th file shows, once the batch is over and its progress messages are
\* handled, the status, message and output path of the k-th record of that
\* batch; and at no time does a row inserted for one file show the result of
\* another file or batch.
C18_RowsShowOwnResult ==
  \A n \in 1..Len(word.tree) :
    LET row == word.tree[n]
        b == row.by[1]
        k == row.by[2]
    IN b # 0 =>
         /\ row.shows \in {<<0, 0>>, row.by}
         /\ (Polled(b) =>
              /\ row.shows = row.by
              /\ row.status = (IF word.jobs[b].results[k][2] THEN "OK" ELSE "FAIL")
              /\ row.msg = word.jobs[b].results[k][3]
              /\ row.out = word.jobs[b].results[k][4])

\* ------------------------------------------------------------ password tab
\* C12: cancelling a running password batch interrupts nothing.  The step
\* that confirms pwd_cancel_run changes no file, future, record or log; a
\* cancelled batch that has returned has one record per file of the list,
\* every future collected after running, and its log written when the log
\* path is writable; and a cancelled batch always comes to its end.
C12_CancelInterruptsNothing ==
  /\ [][(~gui.cancelled /\ gui'.cancelled)
         => UNCHANGED <<fs, tasks, results, calls, pc, log>>]_vars
  /\ [](gui.cancelled /\ pc = "returned" =>
         /\ Len(results) = Len(file_list)
         /\ \A i \in DOMAIN tasks : tasks[i].pc = "collected" /\ tasks[i].res # NoRes
         /\ (log.path = "writable" => Len(log.rows) = Len(file_list) + 1))
  /\ (gui.cancelled ~> pc \in {"returned", "raised"})

\* A batch of two files cancelled before any of them was finished has
\* returned two records and written its log.
C12_Witness ==
  /\ gui.cancelled
  /\ gui.at_cancel.results = 0
  /\ pc = "returned"
  /\ Len(results) = 2
  /\ log.path = "writable"
  /\ Len(log.rows) = 3

\* C13: once cancellation is confirmed the interface stops tracking the
\* batch: the status label stays "Cancelled", the progress bar keeps the
\* value it had, and no completion dialog is shown.
C13_StopsTracking ==
  gui.cancelled =>
    /\ gui.status = "Cancelled"
    /\ gui.progress = gui.at_cancel.progress
    /\ gui.dialogs = 0

\* ---------------------------------------------------------------- run_batch
\* C14: when a callback is given, it has been called once for every future
\* taken by the loop and for no other: the k-th call carries completed = k,
\* total = the length of the list, and the file name, success flag and
\* message of the k-th record; when run_batch returns, there is one call per
\* file; a callback that raises never makes run_batch raise.
C14_CallbackPerFile ==
  opt.progress_callback # "none" =>
    /\ Len(calls) = Len(results)
    /\ Len(calls) = Cardinality({i \in DOMAIN tasks : tasks[i].pc = "collected"})
    /\ \A k \in 1..Len(calls) :
         /\ calls[k][1] = k
         /\ calls[k][2] = Len(file_list)
         /\ <<calls[k][3], calls[k][4], calls[k][5]>> = results[k]
    /\ (pc = "returned" => Len(calls) = Len(file_list))
    /\ (pc = "raised" => calls = <<>>)

\* Two files, the callback raised for the first and returned for the second.
C14_Witness ==
  /\ pc = "returned"
  /\ Len(calls) = 2
  /\ calls[1][6]
  /\ ~calls[2][6]
  /\ calls[1][4] # calls[2][4]

\* C15: the log of a non-empty run_batch with a writable log path holds the
\* header row and then one row per record, in the order of the result list,
\* with the record's file name and message and with OK exactly when the
\* record is a success; rows are written only once every future is
\* collected; and the step that writes the log, or fails to, leaves the
\* results as they are, complete.
C15_LogMatchesResults ==
  /\ [](log.rows # <<>> =>
         pc = "returned" /\ \A i \in DOMAIN tasks : tasks[i].pc = "collected")
  /\ [](pc = "returned" /\ file_list # <<>> /\ log.path = "writable" =>
         /\ Len(log.rows) = Len(results) + 1
         /\ log.rows[1] = <<"timestamp", "filename", "success", "message">>
         /\ \A k \in 1..Len(results) :
              /\ log.rows[k + 1][2] = results[k][1]
              /\ log.rows[k + 1][3] \in {"OK", "FAIL"}
              /\ (log.rows[k + 1][3] = "OK" <=> results[k][2])
              /\ log.rows[k + 1][4] = results[k][3])
  /\ [](pc = "returned" /\ log.path = "unwritable" =>
         log.rows = <<>> /\ Len(results) = Len(file_list))
  /\ [][log' # log => results' = results]_vars

\* Two files finished in the reverse of the list order, one a success and
\* one a failure, and the log written.
C15_Witness ==
  /\ pc = "returned"
  /\ log.path = "writable"
  /\ Len(results) = 2
  /\ results[1][1] = basename(file_list[2])
  /\ results[1][1] # results[2][1]
  /\ results[1][2] # results[2][2]
  /\ Len(log.rows) = 3

\* ------------------------------------------------------ load_password_csv
\* The rows of the file that carry a file name and a password: those of two
\* fields or more.
DataRows == {k \in 1..Len(csvf.rows) : Len(csvf.rows[k]) >= 2}

\* C16: load_password_csv does not fail on empty or short rows, and returns a
\* mapping that has an entry for exactly the names of the rows of two fields,
\* each name mapped to the password of the last such row with that name
\* (names and passwords compared without surrounding blanks; whether a line
\* "filename,password" gives an entry is left open).
C16_LastRowWins ==
  csvf.pc # "called" =>
    /\ csvf.pc = "returned"
    /\ DOMAIN csvf.mapping \ {"filename"}
         = {strip(csvf.rows[k][1]) : k \in DataRows} \ {"filename"}
    /\ \A k \in DataRows :
         (/\ csvf.rows[k][1] # "filename"
          /\ \A j \in DataRows : j > k => strip(csvf.rows[j][1]) # strip(csvf.rows[k][1]))
           => strip(csvf.mapping[strip(csvf.rows[k][1])]) = strip(csvf.rows[k][2])

\* ------------------------------------------------- outputs and backups
\* C19: when overwrite is not enabled, process_single_pdf leaves the input
\* file as it was, whatever the other options are.
C19_InputUntouched ==
  ~opt.overwrite => fs[TheFile] = fs0[TheFile] /\ <<1, TheFile>> \notin wrote

\* The futures that wrote an output: the success records other than "skipped".
Rewrote(i) == tasks[i].pc \in {"done", "collected"} /\ tasks[i].res[2] /\ tasks[i].pages # <<>>

\* C20: in one run_batch no path is written by the workers of two distinct
\* input paths; when the batch has returned (no write having failed), the
\* output of every rewritten input holds that input's pages under the new
\* password, and in overwrite mode with a backup root the backup folder holds
\* the original of every rewritten input.
C20_OutputsKeptApart ==
  /\ \A i, j \in DOMAIN tasks :
       file_list[i] # file_list[j] =>
         ~\E p \in Paths : <<i, p>> \in wrote /\ <<j, p>> \in wrote
  /\ (pc = "returned" /\ env = NoFault) =>
       \A i \in DOMAIN tasks :
         Rewrote(i) =>
           /\ fs[IF opt.output_folder # NoDir /\ ~opt.overwrite
                   THEN <<opt.output_folder, file_list[i][2]>>
                 ELSE file_list[i]]
                = [kind |-> "pdf", pages |-> fs0[file_list[i]].pages, enc |-> opt.new_password]
           /\ (opt.overwrite /\ opt.backup_root # NoDir =>
                fs[<<opt.backup_root, file_list[i][2]>>] = fs0[file_list[i]])

\* C21: the polling callback of a Word conversion batch keeps rescheduling
\* itself until it has taken "done" from the batch's queue (so the summary
\* dialog is shown), and once a batch was started the convert buttons are
\* enabled again only when its background task has finished.
C21_PollTakesDone ==
  \A b \in 1..Len(word.jobs) :
    LET job == word.jobs[b]
    IN /\ ~job.polling => job.done_seen
       /\ (b = Len(word.jobs) /\ word.buttons) => job.pc = "finished"

\* The directory file k of batch b is written to if background_job reaches
\* it while the Word tab is in state w.
WrittenTo(w, b, k) ==
  LET job == w.jobs[b]
      fp == job.files[k]
  IN target_dir(job.out_dir, job.preserve, origin_of(w.origin_map, fp), fp)

\* C24: where the files of a started Word batch are written is fixed when
\* the batch starts: no step taken while its background task is running (a
\* removal, a clearing of the list, any other event) changes the directory
\* a file the task has not reached yet is going to be written to.
C24_TargetsFixedAtStart ==
  [][\A b \in 1..Len(word.jobs) :
       word.jobs[b].pc = "loop" =>
         \A k \in word.jobs[b].next..Len(word.jobs[b].files) :
           WrittenTo(word', b, k) = WrittenTo(word, b, k)]_vars

\* The batches of the password tab whose pool has a file to work on.
WorkersExecuting ==
  (IF pc = "running" /\ \E i \in DOMAIN tasks : tasks[i].pc \notin {"done", "collected"}
     THEN {gui.runs} ELSE {})
    \cup {gui.stale[s].id : s \in {t \in 1..Len(gui.stale) :
                                     /\ gui.stale[t].pc = "running"
                                     /\ gui.stale[t].unfinished > 0}}

\* C22: in the password tab the workers of at most one batch are executing,
\* every item _pwd_process_queue has handled was put by the latest batch,
\* and no item of an earlier batch has cleared pwd_running while a later
\* batch was tracked.
C22_OneBatchAtATime ==
  /\ Cardinality(WorkersExecuting) <= 1
  /\ ~gui.foreign
  /\ ~gui.wrong_end

\* A list box shows the base names of a path list, entry by entry, and no
\* path is listed twice.
Aligned(filepaths, listbox) ==
  /\ Len(listbox) = Len(filepaths)
  /\ \A i \in 1..Len(filepaths) : listbox[i] = filepaths[i][Len(filepaths[i])]
  /\ \A i, j \in 1..Len(filepaths) : filepaths[i] = filepaths[j] => i = j

\* How often path p is in list s.
Count(s, p) == Cardinality({i \in 1..Len(s) : s[i] = p})

\* C23: in each tab the list box and the path list stay aligned after any
\* sequence of add files, add folder, drop, remove selected, clear, move up
\* and move down, and a move up or move down leaves the merge list with the
\* same paths, each as often as before.
C23_ListsAligned ==
  /\ [](/\ Aligned(gui.pwd.filepaths, gui.pwd.listbox)
        /\ Aligned(gui.merge.filepaths, gui.merge.listbox)
        /\ Aligned(word.filepaths, word.listbox))
  /\ [][gui'.last_op \in {"move_up", "move_down"} =>
          /\ Len(gui'.merge.filepaths) = Len(gui.merge.filepaths)
          /\ \A p \in InputPaths :
               Count(gui'.merge.filepaths, p) = Count(gui.merge.filepaths, p)]_vars

\* A move has rearranged a merge list of three files, two of one base name,
\* while the other two tabs list files as well.
C23_Witness ==
  /\ gui.last_op = "move_up"
  /\ gui.merge.filepaths = << <<"d1", "b.pdf">>, <<"d2", "a.pdf">>, <<"d1", "a.pdf">> >>
  /\ gui.merge.listbox = <<"b.pdf", "a.pdf", "a.pdf">>
  /\ Len(gui.pwd.listbox) >= 2
  /\ Len(word.listbox) = 2

====
